---------------------------- MODULE Spec2Model ----------------------------
(***************************************************************************)
(* A model of the DXF merge scripts of this repository:                    *)
(*   fixed_merge_dxf_Version2.py  merge_dxf_files ("fixed"),               *)
(*                                simple_merge_dxf ("simple")              *)
(*   merge_dxf_files.py           merge_dxf_files ("files"),               *)
(*                                merge_dxf_with_layers ("with_layers")    *)
(*   merge_dxf.py                 merge_from_folder ("folder"),            *)
(*                                merge ("merge"), _reset_insbase          *)
(* One run of one entry point is one behaviour.  The files on disk are the *)
(* run's input: the number of files is fixed at the start and the content  *)
(* of each file is drawn from Docs when the file is read.                  *)
(***************************************************************************)
EXTENDS Integers, Sequences, FiniteSets, TLC

\* Bounds of the model.
MaxSources == 2
MaxEnts == 2

Variants == {"fixed", "simple", "files", "with_layers", "folder", "merge"}

\* The entry points that copy blocks and table entries themselves.
CopiesResources(v) == v \in {"fixed", "files"}
\* The entry points that hand the import to ezdxf.addons.Importer.
UsesImporter(v) == v \in {"folder", "merge"}

-----------------------------------------------------------------------------
(* Names.  A block name is a sequence of tokens so that startswith('*')    *)
(* is computed on the name; table names are plain strings.                 *)

ModelSpace == <<"*", "Model_Space">>
PaperSpace == <<"*", "Paper_Space">>
AnonBlock == <<"*", "U1">>
UserBlock == <<"B1">>

StartsWith(name, prefix) == Len(name) > 0 /\ name[1] = prefix

-----------------------------------------------------------------------------
(* Table entries and documents.                                            *)

DefaultLayerDef ==
  [color |-> 7, linetype |-> "Continuous", lineweight |-> -3,
   on |-> TRUE, frozen |-> FALSE, locked |-> FALSE]

Layer(name, color, fault) ==
  [name |-> name,
   def |-> [color |-> color, linetype |-> "Continuous", lineweight |-> 25,
            on |-> TRUE, frozen |-> (color = 5), locked |-> FALSE],
   fault |-> fault]

Linetype(name, description, pattern, fault) ==
  [name |-> name, def |-> [description |-> description, pattern |-> pattern],
   fault |-> fault]

Style(name, font, fault) ==
  [name |-> name,
   def |-> [font |-> font, width |-> 1, height |-> 0, oblique |-> 0],
   fault |-> fault]

Block(name, body) == [name |-> name, def |-> body, fault |-> "none"]

\* An entity of a block or of the modelspace.  copy_ok says whether
\* entity.copy() and add_entity() succeed on it.
Entity(kind, layer, geom, ok) ==
  [kind |-> kind, layer |-> layer, geom |-> geom, copy_ok |-> ok]

\* What ezdxf.new() and every DXF file hold.
StdBlocks == <<Block(ModelSpace, <<>>), Block(PaperSpace, <<>>)>>
StdLayers == <<[name |-> "0", def |-> DefaultLayerDef, fault |-> "none"]>>
StdLinetypes ==
  <<Linetype("ByLayer", "", "", "none"), Linetype("ByBlock", "", "", "none"),
    Linetype("Continuous", "Solid line", "", "none")>>
StdStyles == <<Style("Standard", "txt", "none")>>

Origin == <<0, 0, 0>>

E_line == Entity("LINE", "0", 1, TRUE)
E_arc == Entity("ARC", "L1", 2, TRUE)
E_proxy == Entity("ACAD_PROXY_ENTITY", "0", 3, FALSE)
E_dangling == Entity("LINE", "GHOST", 4, TRUE)

BaseDoc ==
  [readable |-> TRUE, insbase |-> Origin, blocks |-> StdBlocks,
   layers |-> StdLayers, linetypes |-> StdLinetypes, styles |-> StdStyles,
   entities |-> <<E_line>>]

\* A file ezdxf.readfile cannot load.
CorruptDoc == [BaseDoc EXCEPT !.readable = FALSE, !.entities = <<>>]

RECURSIVE SeqsUpTo(_, _)
SeqsUpTo(S, n) ==
  IF n = 0 THEN {<<>>}
  ELSE LET shorter == SeqsUpTo(S, n - 1)
       IN shorter \cup {Append(s, x) : s \in {t \in shorter : Len(t) = n - 1}, x \in S}

EntityPool == {E_arc, E_proxy}

\* Files that differ in their modelspace.
DocsEntities ==
  {[BaseDoc EXCEPT !.entities = es,
                   !.layers = StdLayers \o <<Layer("L1", 1, "none")>>]
     : es \in SeqsUpTo(EntityPool, MaxEnts)}
  \cup {[BaseDoc EXCEPT !.entities = <<E_dangling, E_line>>]}

\* Files that differ in their blocks.
DocsBlocks ==
  {[BaseDoc EXCEPT !.blocks = StdBlocks \o bs] :
     bs \in {<<Block(UserBlock, <<E_line>>)>>,
             <<Block(UserBlock, <<E_proxy, E_arc>>)>>,
             <<Block(AnonBlock, <<E_line>>), Block(UserBlock, <<E_arc>>)>>,
             <<Block(AnonBlock, <<E_arc>>)>>}}

\* Files that differ in their layer table.
DocsLayers ==
  {[BaseDoc EXCEPT !.layers = ls] :
     ls \in {StdLayers \o <<Layer("L1", 1, "none")>>,
             StdLayers \o <<Layer("L1", 5, "none")>>,
             StdLayers \o <<Layer("L1", 1, "color")>>,
             StdLayers \o <<Layer("L1", 5, "lineweight")>>,
             <<Layer("0", 1, "none")>>}}

\* Files that differ in their linetype table.
DocsLinetypes ==
  {[BaseDoc EXCEPT !.linetypes = ts] :
     ts \in {StdLinetypes \o <<Linetype("DASHED", "Dashed", "A,.5,-.25", "none")>>,
             StdLinetypes \o <<Linetype("DASHED", "Dashed2", "A,.6,-.1", "none")>>,
             StdLinetypes \o <<Linetype("DASHED", "Dashed", "A,.5,-.25", "new")>>,
             <<Linetype("ByLayer", "", "", "none"), Linetype("ByBlock", "", "", "none"),
               Linetype("Continuous", "Redefined", "A,1,-1", "none")>>}}

\* Files that differ in their text style table.
DocsStyles ==
  {[BaseDoc EXCEPT !.styles = ss] :
     ss \in {StdStyles \o <<Style("S1", "arial.ttf", "none")>>,
             StdStyles \o <<Style("S1", "simsun.ttf", "none")>>,
             StdStyles \o <<Style("S1", "arial.ttf", "new")>>,
             <<Style("Standard", "simsun.ttf", "none")>>}}

\* A file whose $INSBASE is not the origin.
DocsInsbase == {[BaseDoc EXCEPT !.insbase = <<10, 20, 0>>]}

Docs ==
  {CorruptDoc} \cup DocsEntities \cup DocsBlocks \cup DocsLayers
  \cup DocsLinetypes \cup DocsStyles \cup DocsInsbase

\* No document bound to source_doc.
NoDoc == [readable |-> FALSE, unbound |-> TRUE]

\* The stem of the name of the i-th file (os.path.splitext(filename)[0]).
FileStem(j) == CASE j = 1 -> "F1" [] j = 2 -> "F2" [] j = 3 -> "F3" [] OTHER -> "Fn"

-----------------------------------------------------------------------------
(* Tables of the target document: sequences of entries, as ezdxf keeps     *)
(* them, so that the uniqueness of names is a property of the code.        *)

HasEntry(table, name) == \E j \in 1..Len(table) : table[j].name = name

GetEntry(table, name) ==
  table[CHOOSE j \in 1..Len(table) :
          /\ table[j].name = name
          /\ \A h \in 1..(j - 1) : table[h].name # name]

\* An entry of a target table: name, definition, and the index of the
\* source whose import created it (0: ezdxf.new()).
TargetEntry(name, def, src) == [name |-> name, def |-> def, src |-> src]

RECURSIVE FromNew(_)
FromNew(table) ==
  IF table = <<>> THEN <<>>
  ELSE <<TargetEntry(Head(table).name, Head(table).def, 0)>> \o FromNew(Tail(table))

\* ezdxf.new()
NewDoc ==
  [blocks |-> FromNew(StdBlocks), layers |-> FromNew(StdLayers),
   linetypes |-> FromNew(StdLinetypes), styles |-> FromNew(StdStyles),
   entities |-> <<>>]

-----------------------------------------------------------------------------
(* State.                                                                  *)

VARIABLES
  variant,               \* the entry point that runs
  use_filename_as_layer, \* the parameter of merge_dxf_with_layers
  nfiles,                \* len(dxf_files) / len(files)
  pc,                    \* where the entry point stands
  i,                     \* index of the file the loop is at (0: before the loop)
  k,                     \* index of the next item of the stage pc names
  status,                \* per file: Pending, Reading, Importing, Done, Failed
  source_doc,            \* the document read from file i
  merged_doc,            \* the target document
  processed_blocks,      \* names of the blocks already created
  entity_count,          \* entities of file i copied so far
  merged_count,          \* merge_from_folder: files merged
  total_entities,        \* simple_merge_dxf: entities copied in the run
  output_file,           \* the file at the output path: absent, written, partial
  saves,                 \* number of calls of saveas
  outcome,               \* what the run printed last, and the numbers it gave
  log,                   \* the warnings and errors printed, in order
  first,                 \* per table, the first definition read for each name
                         \* (kept where the tables are copied)
  was_read,              \* per file, whether readfile returned a document
  src_entities,          \* per file, the modelspace entities as read
  entity_counts,         \* per file, the entity_count printed (-1: none)
  resets,                \* applications of _reset_insbase to source_doc
  once,                  \* source_doc after the first application
  directory,             \* batch_block_by_filename: the files of the directory
  the_doc,               \* doc: the document process_directory has read
  the_entities,          \* entities: list(msp) of all_entities_to_block
  runs,                  \* runs of process_directory begun
  originals,             \* per file, the modelspace before the first run
  applied                \* per file, the calls of all_entities_to_block
                         \* that returned and were saved

vars ==
  <<variant, use_filename_as_layer, nfiles, pc, i, k, status, source_doc,
    merged_doc, processed_blocks, entity_count, merged_count, total_entities,
    output_file, saves, outcome, log, first, was_read, src_entities,
    entity_counts, resets, once, directory, the_doc, the_entities, runs, originals,
    applied>>

\* The run's input and the history kept for the properties.
params == <<variant, use_filename_as_layer, nfiles>>
harness == <<resets, once>>
\* The state of batch_block_by_filename.py, which the merges leave alone.
wrapping == <<directory, the_doc, the_entities, runs, originals, applied>>
\* What is written when a file is read.
inputs == <<first, was_read, src_entities>>

Running == [msg |-> "", files |-> -1, entities |-> -1]
Said(msg, files, entities) == [msg |-> msg, files |-> files, entities |-> entities]

Logged(ev) == Append(log, [ev |-> ev, src |-> i])

NoFirst == [blocks |-> <<>>, layers |-> <<>>, linetypes |-> <<>>, styles |-> <<>>]

\* No run of process_directory: its state is empty and stays so.
NotWrapping ==
  /\ directory = <<>>
  /\ the_doc = NoDoc
  /\ the_entities = <<>>
  /\ runs = 0
  /\ originals = <<>>
  /\ applied = <<>>

Init ==
  /\ variant \in Variants
  /\ use_filename_as_layer \in (IF variant = "with_layers" THEN BOOLEAN ELSE {TRUE})
  /\ nfiles \in 0..MaxSources
  /\ pc = "start"
  /\ i = 0
  /\ k = 0
  /\ status = [j \in 1..nfiles |-> "Pending"]
  /\ source_doc = NoDoc
  /\ merged_doc = NewDoc
  /\ processed_blocks = {}
  /\ entity_count = 0
  /\ merged_count = 0
  /\ total_entities = 0
  /\ output_file = "absent"
  /\ saves = 0
  /\ outcome = Running
  /\ log = <<>>
  /\ first = NoFirst
  /\ was_read = [j \in 1..nfiles |-> FALSE]
  /\ src_entities = [j \in 1..nfiles |-> <<>>]
  /\ entity_counts = [j \in 1..nfiles |-> -1]
  /\ resets = 0
  /\ once = NoDoc
  /\ NotWrapping

-----------------------------------------------------------------------------
(* The driver: the checks before the loop, the loop head, readfile.        *)

\* if not dxf_files: print(...); return      (fixed, files, folder, merge)
ChecksEmpty(v) == v \in {"fixed", "files", "folder", "merge"}

Start ==
  /\ pc = "start"
  /\ IF ChecksEmpty(variant) /\ nfiles = 0
       THEN /\ pc' = "done"
            /\ outcome' = Said("no_files", -1, -1)
       ELSE /\ pc' = "loop"
            /\ UNCHANGED outcome
  /\ UNCHANGED <<params, wrapping, harness, i, k, status, source_doc, merged_doc,
                 processed_blocks, entity_count, merged_count, total_entities,
                 output_file, saves, log, inputs, entity_counts>>

\* for filename in dxf_files: the next file, or the end of the loop.
NextFile ==
  /\ pc = "loop"
  /\ IF i < nfiles
       THEN /\ i' = i + 1
            /\ status' = [status EXCEPT ![i + 1] = "Reading"]
            /\ pc' = "read"
       ELSE /\ pc' = "save"
            /\ UNCHANGED <<i, status>>
  /\ UNCHANGED <<params, wrapping, harness, k, source_doc, merged_doc, processed_blocks,
                 entity_count, merged_count, total_entities, output_file,
                 saves, outcome, log, inputs, entity_counts>>

\* The stage a file enters once it is read.
FirstStage(v) ==
  CASE CopiesResources(v) -> "blocks"
    [] UsesImporter(v) -> "reset"
    [] v = "with_layers" -> "file_layer"
    [] OTHER -> "entities"

Names(table) == {table[j].name : j \in 1..Len(table)}

\* The entries of table under names that seen does not hold yet, each with
\* the index of the file that gave it.
RECURSIVE Unseen(_, _, _)
Unseen(names, table, src) ==
  IF table = <<>> THEN <<>>
  ELSE LET e == Head(table)
           rest == Unseen(names \cup {e.name}, Tail(table), src)
       IN IF e.name \in names THEN rest
          ELSE <<[name |-> e.name, def |-> e.def, fault |-> e.fault,
                  src |-> src, redefined |-> FALSE]>> \o rest

\* Whether table gives the name of f a definition other than f's.
Redefines(table, f) ==
  \E j \in 1..Len(table) : table[j].name = f.name /\ table[j].def # f.def

\* seen after the file src, whose table is table, is read: the first
\* definition of every name stays, and is marked when table gives another.
Remember(seen, table, src) ==
  [j \in 1..Len(seen) |->
     [seen[j] EXCEPT !.redefined = @ \/ Redefines(table, seen[j])]]
  \o Unseen(Names(seen), table, src)

\* A loop that ends at the first file it cannot take (break for continue).
Break == pc' = "save"

\* A loop that tries again the file it could not take.
Retry == pc' = "read"

\* continue: the loop goes to its next file.
Continue == pc' = "loop"

\* ezdxf.readfile(path) raised: merge_dxf.py prints and continues, the others
\* land in the handler around the loop body.
ReadFail ==
  /\ pc = "read"
  /\ \E doc \in Docs :
       /\ ~doc.readable
       /\ status' = [status EXCEPT ![i] = "Failed"]
       /\ log' = Logged(IF UsesImporter(variant) THEN "read_error" ELSE "file_error")
       /\ Continue
  /\ UNCHANGED <<params, wrapping, harness, i, k, source_doc, merged_doc, processed_blocks,
                 entity_count, merged_count, total_entities, output_file,
                 saves, outcome, inputs, entity_counts>>

\* ezdxf.readfile(path) returned a document.
ReadOk ==
  /\ pc = "read"
  /\ \E doc \in Docs :
       /\ doc.readable
       /\ source_doc' = doc
       /\ was_read' = [was_read EXCEPT ![i] = TRUE]
       /\ src_entities' = [src_entities EXCEPT ![i] = doc.entities]
       /\ first' = IF CopiesResources(variant)
                     THEN [blocks |-> Remember(first.blocks, doc.blocks, i),
                           layers |-> Remember(first.layers, doc.layers, i),
                           linetypes |-> Remember(first.linetypes, doc.linetypes, i),
                           styles |-> Remember(first.styles, doc.styles, i)]
                     ELSE first
  /\ status' = [status EXCEPT ![i] = "Importing"]
  /\ pc' = FirstStage(variant)
  /\ k' = 1
  /\ entity_count' = IF FirstStage(variant) = "entities" THEN 0 ELSE entity_count
  /\ resets' = 0
  /\ once' = NoDoc
  /\ UNCHANGED <<params, wrapping, i, merged_doc, processed_blocks, merged_count,
                 total_entities, output_file, saves, outcome, log, entity_counts>>

-----------------------------------------------------------------------------
(* Copies.                                                                 *)

\* A copy that moves the entity.
EntityCopyMoved(e) == [kind |-> e.kind, layer |-> e.layer, geom |-> e.geom + 1]

\* entity.copy(): a new entity with the fields of e.
EntityCopy(e) == [kind |-> e.kind, layer |-> e.layer, geom |-> e.geom]

\* merged_msp.add_entity(entity.copy()) of the j-th entity of file src.
Placed(e, src, j) ==
  [kind |-> EntityCopy(e).kind, layer |-> EntityCopy(e).layer,
   geom |-> EntityCopy(e).geom, src |-> src, idx |-> j]

\* fixed: every entity of a block body is copied in a try of its own; the
\* ones that cannot be copied are left out.
RECURSIVE CopyEach(_)
CopyEach(body) ==
  IF body = <<>> THEN <<>>
  ELSE (IF Head(body).copy_ok THEN <<EntityCopy(Head(body))>> ELSE <<>>)
       \o CopyEach(Tail(body))

\* files: the entities of a block body are copied until one raises.
RECURSIVE CopyUntilRaise(_)
CopyUntilRaise(body) ==
  IF body = <<>> \/ ~Head(body).copy_ok THEN <<>>
  ELSE <<EntityCopy(Head(body))>> \o CopyUntilRaise(Tail(body))

AllCopyOk(body) == \A j \in 1..Len(body) : body[j].copy_ok

RECURSIVE Warnings(_, _, _)
Warnings(l, ev, n) ==
  IF n = 0 THEN l ELSE Warnings(Append(l, [ev |-> ev, src |-> i]), ev, n - 1)

Failures(body) == Len(body) - Len(CopyEach(body))

\* The test of the blocks loop without its second half.
WantsAnyBlock(name) == name \notin processed_blocks

\* if block_name not in processed_blocks and not block_name.startswith('*')
WantsBlock(name) == name \notin processed_blocks /\ ~StartsWith(name, "*")

\* A membership test that finds no name in any table.
AbsentAlways(table, name) == TRUE

\* name not in merged_doc.<table>
Absent(table, name) == ~HasEntry(table, name)

\* <table>.new(name=...) raises DXFTableEntryError, a DXFValueError, when the
\* table has an entry of that name.
NewRaises(table, name) == HasEntry(table, name)

\* The handler around the body of the loop: print the error, next file.
FileFails ==
  /\ status' = [status EXCEPT ![i] = "Failed"]
  /\ log' = Logged("file_error")
  /\ Continue

-----------------------------------------------------------------------------
(* merge_dxf_files, both versions: blocks, layers, linetypes, styles.      *)

Stages == <<"blocks", "layers", "linetypes", "styles", "entities">>

Items(stage) ==
  CASE stage = "blocks" -> source_doc.blocks
    [] stage = "layers" -> source_doc.layers
    [] stage = "linetypes" -> source_doc.linetypes
    [] stage = "styles" -> source_doc.styles
    [] OTHER -> source_doc.entities

\* The loop of a stage is over: the next stage begins.
NextStage ==
  /\ pc \in {"blocks", "layers", "linetypes", "styles"}
  /\ k > Len(Items(pc))
  /\ pc' = Stages[1 + CHOOSE n \in 1..4 : Stages[n] = pc]
  /\ k' = 1
  /\ entity_count' = IF pc = "styles" THEN 0 ELSE entity_count
  /\ UNCHANGED <<params, wrapping, harness, i, status, source_doc, merged_doc,
                 processed_blocks, merged_count, total_entities, output_file,
                 saves, outcome, log, inputs, entity_counts>>

WithBlock(doc, name, body) ==
  [doc EXCEPT !.blocks = Append(@, TargetEntry(name, body, i))]

\* The target after the block b of the source: fixed creates it when the
\* target lacks the name and copies what can be copied; files creates it
\* unless blocks.new raises and copies until a copy raises.
BlockInto(doc, b) ==
  IF ~WantsBlock(b.name) THEN doc
  ELSE IF variant = "fixed"
    THEN IF Absent(doc.blocks, b.name)
           THEN WithBlock(doc, b.name, CopyEach(b.def))
           ELSE doc
  ELSE IF NewRaises(doc.blocks, b.name) THEN doc
  ELSE WithBlock(doc, b.name, CopyUntilRaise(b.def))

\* One block of source_doc.blocks.
CopyBlock ==
  /\ pc = "blocks"
  /\ k <= Len(source_doc.blocks)
  /\ merged_doc' = BlockInto(merged_doc, source_doc.blocks[k])
  /\ LET b == source_doc.blocks[k] IN
       IF ~WantsBlock(b.name)
         THEN /\ k' = k + 1
              /\ UNCHANGED <<processed_blocks, status, log, pc>>
       ELSE IF variant = "fixed"
         THEN \* new block, every entity in its own try, then processed
              /\ k' = k + 1
              /\ IF Absent(merged_doc.blocks, b.name)
                   THEN /\ processed_blocks' = processed_blocks \cup {b.name}
                        /\ log' = Warnings(log, "block_entity_warning", Failures(b.def))
                   ELSE UNCHANGED <<processed_blocks, log>>
              /\ UNCHANGED <<status, pc>>
       ELSE IF NewRaises(merged_doc.blocks, b.name)
         THEN \* files: except ezdxf.DXFValueError: pass
              /\ k' = k + 1
              /\ UNCHANGED <<processed_blocks, status, log, pc>>
       ELSE IF AllCopyOk(b.def)
         THEN /\ k' = k + 1
              /\ processed_blocks' = processed_blocks \cup {b.name}
              /\ UNCHANGED <<status, log, pc>>
         ELSE \* files: entity.copy() raises out of the block loop
              /\ FileFails
              /\ UNCHANGED <<k, processed_blocks>>
  /\ UNCHANGED <<params, wrapping, harness, i, source_doc, entity_count, merged_count,
                 total_entities, output_file, saves, outcome, inputs, entity_counts>>

\* fixed copies dxf.color, dxf.linetype, dxf.lineweight, dxf.flags; files
\* copies color, linetype, lineweight, transparency, on, freeze, lock.
LayerCopy(def) ==
  [color |-> def.color, linetype |-> def.linetype, lineweight |-> def.lineweight,
   on |-> def.on, frozen |-> def.frozen, locked |-> def.locked]

\* The layer that layers.new(name) leaves when an assignment raises: at
\* color nothing is set; at lineweight color and linetype are set; the rest
\* is as new.
LayerStub(def, fault) ==
  IF fault = "color" THEN DefaultLayerDef
  ELSE [DefaultLayerDef EXCEPT !.color = def.color, !.linetype = def.linetype]

WithLayer(doc, name, def) ==
  [doc EXCEPT !.layers = Append(@, TargetEntry(name, def, i))]

\* The target after the layer l of the source: a name the target holds is
\* left alone; otherwise the layer is copied as far as the copy gets.
LayerInto(doc, l) ==
  IF ~Absent(doc.layers, l.name) THEN doc
  ELSE WithLayer(doc, l.name,
                 IF l.fault = "none" THEN LayerCopy(l.def)
                 ELSE LayerStub(l.def, l.fault))

\* One layer of source_doc.layers.
CopyLayer ==
  /\ pc = "layers"
  /\ k <= Len(source_doc.layers)
  /\ merged_doc' = LayerInto(merged_doc, source_doc.layers[k])
  /\ LET l == source_doc.layers[k] IN
       IF ~Absent(merged_doc.layers, l.name) \/ l.fault = "none"
         THEN /\ k' = k + 1
              /\ UNCHANGED <<status, log, pc>>
       ELSE IF variant = "fixed"
         THEN \* except Exception: print the warning
              /\ k' = k + 1
              /\ log' = Logged("layer_warning")
              /\ UNCHANGED <<status, pc>>
         ELSE \* files: no try, the file fails
              /\ FileFails
              /\ UNCHANGED k
  /\ UNCHANGED <<params, wrapping, harness, i, source_doc, processed_blocks, entity_count,
                 merged_count, total_entities, output_file, saves, outcome,
                 inputs, entity_counts>>

\* linetypes.new(name, dxfattribs={'description': ...}): no pattern is given.
LinetypeCopy(def) == [description |-> def.description, pattern |-> ""]

\* The names the linetype loop leaves out, whatever the target holds.
ReservedLinetypes(v) ==
  IF v = "fixed" THEN {"ByLayer", "ByBlock", "Continuous"} ELSE {"ByLayer", "ByBlock"}

\* A linetype loop that takes every linetype of the source.
WantsAnyLinetype(doc, name) == TRUE

\* if linetype_name not in merged_doc.linetypes and linetype_name not in [...]
WantsLinetype(doc, name) ==
  Absent(doc.linetypes, name) /\ name \notin ReservedLinetypes(variant)

\* The target after the linetype t of the source.
LinetypeInto(doc, t) ==
  IF WantsLinetype(doc, t.name) /\ t.fault = "none"
    THEN [doc EXCEPT !.linetypes =
            Append(@, TargetEntry(t.name, LinetypeCopy(t.def), i))]
    ELSE doc

\* One linetype of source_doc.linetypes.
CopyLinetype ==
  /\ pc = "linetypes"
  /\ k <= Len(source_doc.linetypes)
  /\ k' = k + 1
  /\ merged_doc' = LinetypeInto(merged_doc, source_doc.linetypes[k])
  /\ LET t == source_doc.linetypes[k] IN
       \* a copy that raises: fixed prints a warning; files: except: pass
       log' = IF WantsLinetype(merged_doc, t.name) /\ t.fault # "none"
                   /\ variant = "fixed"
                THEN Logged("linetype_warning")
                ELSE log
  /\ UNCHANGED <<params, wrapping, harness, i, status, pc, source_doc, processed_blocks,
                 entity_count, merged_count, total_entities, output_file,
                 saves, outcome, inputs, entity_counts>>

\* styles.new(name, dxfattribs={font, width, height, oblique})
StyleCopy(def) ==
  [font |-> def.font, width |-> def.width, height |-> def.height,
   oblique |-> def.oblique]

ReservedStyles(v) == IF v = "fixed" THEN {"Standard"} ELSE {}

\* if style_name not in merged_doc.styles [and style_name != 'Standard']
WantsStyle(doc, name) ==
  Absent(doc.styles, name) /\ name \notin ReservedStyles(variant)

\* The target after the text style t of the source.
StyleInto(doc, t) ==
  IF WantsStyle(doc, t.name) /\ t.fault = "none"
    THEN [doc EXCEPT !.styles =
            Append(@, TargetEntry(t.name, StyleCopy(t.def), i))]
    ELSE doc

\* One text style of source_doc.styles.
CopyStyle ==
  /\ pc = "styles"
  /\ k <= Len(source_doc.styles)
  /\ k' = k + 1
  /\ merged_doc' = StyleInto(merged_doc, source_doc.styles[k])
  /\ LET t == source_doc.styles[k] IN
       log' = IF WantsStyle(merged_doc, t.name) /\ t.fault # "none"
                   /\ variant = "fixed"
                THEN Logged("style_warning")
                ELSE log
  /\ UNCHANGED <<params, wrapping, harness, i, status, pc, source_doc, processed_blocks,
                 entity_count, merged_count, total_entities, output_file,
                 saves, outcome, inputs, entity_counts>>

-----------------------------------------------------------------------------
(* The modelspace loop of merge_dxf_files, simple_merge_dxf and            *)
(* merge_dxf_with_layers.                                                  *)

\* merge_dxf_with_layers: the layer named after the file.
FileLayer ==
  /\ pc = "file_layer"
  /\ merged_doc' =
       IF use_filename_as_layer /\ Absent(merged_doc.layers, FileStem(i))
         THEN WithLayer(merged_doc, FileStem(i), DefaultLayerDef)
         ELSE merged_doc
  /\ pc' = "entities"
  /\ k' = 1
  /\ entity_count' = 0
  /\ UNCHANGED <<params, wrapping, harness, i, status, source_doc, processed_blocks,
                 merged_count, total_entities, output_file, saves, outcome,
                 log, inputs, entity_counts>>

\* new_entity.dxf.layer = layer_name, in merge_dxf_with_layers only.
Relayered(e) ==
  IF variant = "with_layers" /\ use_filename_as_layer
    THEN [e EXCEPT !.layer = FileStem(i)]
    ELSE e

\* A modelspace that drops what is added to it.
AddEntityLost(doc, e) == doc

\* A modelspace that takes a new entity at its front.
AddEntityFirst(doc, e) == [doc EXCEPT !.entities = <<e>> \o @]

\* merged_msp.add_entity(new_entity)
AddEntity(doc, e) == [doc EXCEPT !.entities = Append(@, e)]

\* A modelspace loop that an entity that cannot be copied ends.
AfterEntityOrStop(e, n) ==
  IF e.copy_ok THEN n + 1 ELSE Len(source_doc.entities) + 1

\* The try stands inside the loop: whether the copy of e raised or not,
\* the loop goes on with the entity after the n-th.
AfterEntity(e, n) == n + 1

\* One entity of the modelspace of source_doc, in a try of its own.
CopyEntity ==
  /\ pc = "entities"
  /\ k <= Len(source_doc.entities)
  /\ k' = AfterEntity(source_doc.entities[k], k)
  /\ LET e == source_doc.entities[k] IN
       IF e.copy_ok
         THEN /\ merged_doc' = AddEntity(merged_doc, Relayered(Placed(e, i, k)))
              /\ entity_count' = entity_count + 1
              /\ UNCHANGED log
         ELSE /\ log' = Logged("entity_warning")
              /\ UNCHANGED <<merged_doc, entity_count>>
  /\ UNCHANGED <<params, wrapping, harness, i, status, pc, source_doc, processed_blocks,
                 merged_count, total_entities, output_file, saves, outcome,
                 inputs, entity_counts>>

\* The modelspace loop is over: the count is printed and the file is done.
FinishFile ==
  /\ pc = "entities"
  /\ k > Len(source_doc.entities)
  /\ entity_counts' = [entity_counts EXCEPT ![i] = entity_count]
  /\ total_entities' =
       IF variant = "simple" THEN total_entities + entity_count ELSE total_entities
  /\ status' = [status EXCEPT ![i] = "Done"]
  /\ pc' = "loop"
  /\ UNCHANGED <<params, wrapping, harness, i, k, source_doc, merged_doc, processed_blocks,
                 entity_count, merged_count, output_file, saves, outcome, log,
                 inputs>>

-----------------------------------------------------------------------------
(* merge_dxf.py: _reset_insbase and the Importer.                          *)

\* A reset that moves the insertion base instead of setting it.
ShiftInsbase(doc) == [doc EXCEPT !.insbase = <<@[1] + 1, @[2], @[3]>>]

\* doc.header["$INSBASE"] = (0, 0, 0).  The header of a Drawing takes the
\* assignment, so the handler of _reset_insbase has nothing to catch.
ResetInsbase(doc) == [doc EXCEPT !.insbase = Origin]

ResetOrigin ==
  /\ pc = "reset"
  /\ source_doc' = ResetInsbase(source_doc)
  /\ resets' = resets + 1
  /\ once' = IF resets = 0 THEN ResetInsbase(source_doc) ELSE once
  /\ pc' = "import"
  /\ UNCHANGED <<params, wrapping, i, k, status, merged_doc, processed_blocks,
                 entity_count, merged_count, total_entities, output_file,
                 saves, outcome, log, inputs, entity_counts>>

\* The copies of the entities es[j..] the Importer can copy, in order.
RECURSIVE Imported(_, _, _)
Imported(es, src, j) ==
  IF j > Len(es) THEN <<>>
  ELSE (IF es[j].copy_ok THEN <<Placed(es[j], src, j)>> ELSE <<>>)
       \o Imported(es, src, j + 1)

\* importer.import_modelspace(msp)
ImportModelspace ==
  /\ pc = "import"
  /\ merged_doc' = [merged_doc EXCEPT !.entities =
                      @ \o Imported(source_doc.entities, i, 1)]
  /\ pc' = "finalize"
  /\ UNCHANGED <<params, wrapping, harness, i, k, status, source_doc, processed_blocks,
                 entity_count, merged_count, total_entities, output_file,
                 saves, outcome, log, inputs, entity_counts>>

\* The layers of table that the imported entities use and the target lacks.
RECURSIVE RequiredLayers(_, _, _)
RequiredLayers(table, used, have) ==
  IF table = <<>> THEN <<>>
  ELSE LET l == Head(table)
       IN IF l.name \in used /\ l.name \notin have
            THEN <<TargetEntry(l.name, l.def, i)>>
                 \o RequiredLayers(Tail(table), used, have \cup {l.name})
            ELSE RequiredLayers(Tail(table), used, have)

UsedLayers(es) == {es[j].layer : j \in {h \in 1..Len(es) : es[h].copy_ok}}

\* importer.finalize(), then the file is merged.
Finalize ==
  /\ pc = "finalize"
  /\ merged_doc' = [merged_doc EXCEPT !.layers =
                      @ \o RequiredLayers(source_doc.layers,
                                          UsedLayers(source_doc.entities),
                                          Names(merged_doc.layers))]
  /\ merged_count' = IF variant = "folder" THEN merged_count + 1 ELSE merged_count
  /\ status' = [status EXCEPT ![i] = "Done"]
  /\ pc' = "loop"
  /\ UNCHANGED <<params, wrapping, harness, i, k, source_doc, processed_blocks,
                 entity_count, total_entities, output_file, saves, outcome,
                 log, inputs, entity_counts>>

\* The Importer raises: no handler surrounds it, the exception leaves the
\* entry point.
ImporterRaises ==
  /\ pc \in {"import", "finalize"}
  /\ status' = [status EXCEPT ![i] = "Failed"]
  /\ outcome' = Said("exception", -1, -1)
  /\ pc' = "aborted"
  /\ UNCHANGED <<params, wrapping, harness, i, k, source_doc, merged_doc, processed_blocks,
                 entity_count, merged_count, total_entities, output_file,
                 saves, log, inputs, entity_counts>>

-----------------------------------------------------------------------------
(* After the loop: saveas.                                                 *)

\* merge_from_folder saves when merged_count > 0; the others always.
SavesTarget == variant = "folder" => merged_count > 0

\* saveas stands in a try in fixed_merge_dxf_Version2.py and in
\* merge_dxf_files of merge_dxf_files.py.
CatchesSaveError(v) == v \in {"fixed", "simple", "files"}

\* The numbers the last message gives.
Merged ==
  CASE variant \in {"fixed", "files"} -> Said("merged", nfiles, -1)
    [] variant = "simple" -> Said("merged", -1, total_entities)
    [] variant = "folder" -> Said("merged", merged_count, -1)
    [] OTHER -> Said("merged", -1, -1)

\* merged_doc.saveas(output_file) writes the file.
SaveOk ==
  /\ pc = "save"
  /\ SavesTarget
  /\ saves' = saves + 1
  /\ output_file' = "written"
  /\ outcome' = Merged
  /\ pc' = "done"
  /\ UNCHANGED <<params, wrapping, harness, i, k, status, source_doc, merged_doc,
                 processed_blocks, entity_count, merged_count, total_entities,
                 log, inputs, entity_counts>>

\* merged_doc.saveas(output_file) raises, before or while it writes.
SaveFails ==
  /\ pc = "save"
  /\ SavesTarget
  /\ saves' = saves + 1
  /\ output_file' \in {"absent", "partial"}
  /\ IF CatchesSaveError(variant)
       THEN /\ outcome' = Said("save_error", -1, -1)
            /\ pc' = "done"
       ELSE /\ outcome' = Said("exception", -1, -1)
            /\ pc' = "aborted"
  /\ UNCHANGED <<params, wrapping, harness, i, k, status, source_doc, merged_doc,
                 processed_blocks, entity_count, merged_count, total_entities,
                 log, inputs, entity_counts>>

\* merge_from_folder: print("No files were successfully merged")
NothingMerged ==
  /\ pc = "save"
  /\ ~SavesTarget
  /\ outcome' = Said("no_merged", -1, -1)
  /\ pc' = "done"
  /\ UNCHANGED <<params, wrapping, harness, i, k, status, source_doc, merged_doc,
                 processed_blocks, entity_count, merged_count, total_entities,
                 output_file, saves, log, inputs, entity_counts>>

-----------------------------------------------------------------------------

Next ==
  \/ Start
  \/ NextFile
  \/ ReadFail
  \/ ReadOk
  \/ NextStage
  \/ CopyBlock
  \/ CopyLayer
  \/ CopyLinetype
  \/ CopyStyle
  \/ FileLayer
  \/ CopyEntity
  \/ FinishFile
  \/ ResetOrigin
  \/ ImportModelspace
  \/ Finalize
  \/ ImporterRaises
  \/ SaveOk
  \/ SaveFails
  \/ NothingMerged

Spec == Init /\ [][Next]_vars

\* The run has ended: it returned or an exception left it.
Ended == pc \in {"done", "aborted"}

\* The loop over the files ran to its end.
Completed == pc = "done" \/ (pc = "aborted" /\ saves > 0)

-----------------------------------------------------------------------------
(* _reset_insbase on its own: a document with any insertion base, and the  *)
(* function applied to it again and again.                                 *)

MaxResets == 2

InsbaseValues == {Origin, <<10, 20, 0>>, <<-5, 0, 3>>, <<0, 0, 7>>}

InitReset ==
  /\ variant = "merge"
  /\ use_filename_as_layer = TRUE
  /\ nfiles = 0
  /\ pc = "reset_only"
  /\ i = 0
  /\ k = 0
  /\ status = <<>>
  /\ source_doc \in {[d EXCEPT !.insbase = b] :
                       d \in {x \in Docs : x.readable}, b \in InsbaseValues}
  /\ merged_doc = NewDoc
  /\ processed_blocks = {}
  /\ entity_count = 0
  /\ merged_count = 0
  /\ total_entities = 0
  /\ output_file = "absent"
  /\ saves = 0
  /\ outcome = Running
  /\ log = <<>>
  /\ first = NoFirst
  /\ was_read = <<>>
  /\ src_entities = <<>>
  /\ entity_counts = <<>>
  /\ resets = 0
  /\ once = NoDoc
  /\ NotWrapping

ApplyReset ==
  /\ pc = "reset_only"
  /\ resets < MaxResets
  /\ source_doc' = ResetInsbase(source_doc)
  /\ resets' = resets + 1
  /\ once' = IF resets = 0 THEN ResetInsbase(source_doc) ELSE once
  /\ UNCHANGED <<params, wrapping, pc, i, k, status, merged_doc, processed_blocks,
                 entity_count, merged_count, total_entities, output_file,
                 saves, outcome, log, inputs, entity_counts>>

SpecReset == InitReset /\ [][ApplyReset]_vars

-----------------------------------------------------------------------------
(* Properties.                                                             *)

Files == 1..nfiles
Target == merged_doc.entities
Kinds == {"blocks", "layers", "linetypes", "styles"}

\* The positions of the target's modelspace that hold entities of file j.
PlacesOf(j) == {p \in 1..Len(Target) : Target[p].src = j}

\* The entities of file j, as read, that cannot be copied / can be copied.
Uncopyable(j) == {n \in 1..Len(src_entities[j]) : ~src_entities[j][n].copy_ok}
Copyable(j) == {n \in 1..Len(src_entities[j]) : src_entities[j][n].copy_ok}

LogCount(ev, j) ==
  Cardinality({p \in 1..Len(log) : log[p] = [ev |-> ev, src |-> j]})

RECURSIVE SumOfCounts(_)
SumOfCounts(n) ==
  IF n = 0 THEN 0
  ELSE SumOfCounts(n - 1) + (IF entity_counts[n] >= 0 THEN entity_counts[n] ELSE 0)

Contested(kind, f) ==
  /\ f.name \notin Names(NewDoc[kind])
  /\ kind = "blocks" => ~StartsWith(f.name, "*")

\* What the import makes of a definition when nothing raises.
KindCopy(kind, def) ==
  CASE kind = "blocks" -> CopyEach(def)
    [] kind = "layers" -> LayerCopy(def)
    [] kind = "linetypes" -> LinetypeCopy(def)
    [] OTHER -> StyleCopy(def)

Holds(kind, f) ==
  /\ HasEntry(merged_doc[kind], f.name)
  /\ GetEntry(merged_doc[kind], f.name).def = KindCopy(kind, f.def)

\* C2 as stated: after a run of merge_dxf_files, a name that two files define
\* differently is held by the target with the definition (as the code copies
\* definitions) of the first of the two.
C2_FirstDefinitionWins ==
  (Completed /\ CopiesResources(variant)) =>
    \A kind \in Kinds : \A p \in 1..Len(first[kind]) :
      LET f == first[kind][p]
      IN (f.redefined /\ Contested(kind, f)) => Holds(kind, f)

\* The copy of f's definition did not raise, and the file that gave it was
\* imported to its end.
CleanlyCopied(kind, f) ==
  /\ status[f.src] = "Done"
  /\ f.fault = "none"
  /\ kind = "blocks" => AllCopyOk(f.def)

FirstCleanCopyHeld ==
  CopiesResources(variant) =>
    \A kind \in Kinds : \A p \in 1..Len(first[kind]) :
      LET f == first[kind][p]
      IN (Contested(kind, f) /\ CleanlyCopied(kind, f)) => Holds(kind, f)

EntriesKept ==
  \A kind \in Kinds : \A p \in 1..Len(merged_doc[kind]) :
    /\ p <= Len(merged_doc'[kind])
    /\ merged_doc'[kind][p] = merged_doc[kind][p]

\* What merge_dxf_files keeps of first-writer-wins: a name is held with the
\* copy of the definition of the first file that defines it whenever that
\* file was imported to its end and the copy of the definition did not
\* raise; and no step of a run changes or removes an entry the target holds.
FirstCleanCopyWins == [] FirstCleanCopyHeld /\ [][EntriesKept]_vars

\* No two entries of table have the same name: the entries are as many as
\* their names.
Unique(table) == Cardinality(Names(table)) = Len(table)

\* C3: in every state of a run, none of the four tables of the target holds
\* two entries of the same name.
C3_NamesUnique ==
  /\ Unique(merged_doc.blocks)
  /\ Unique(merged_doc.layers)
  /\ Unique(merged_doc.linetypes)
  /\ Unique(merged_doc.styles)

\* The second file defines a layer the first file gave to the target.
C3_Witness ==
  /\ CopiesResources(variant)
  /\ i = 2
  /\ pc = "linetypes"
  /\ HasEntry(source_doc.layers, "L1")
  /\ HasEntry(merged_doc.layers, "L1")
  /\ GetEntry(merged_doc.layers, "L1").src = 1
  /\ GetEntry(merged_doc.layers, "L1").def.color # GetEntry(source_doc.layers, "L1").def.color

Before(x, y) == x.src < y.src \/ (x.src = y.src /\ x.idx < y.idx)

\* The entities of file j that can be copied, in the order of the file.
RECURSIVE CopiesFrom(_, _)
CopiesFrom(j, n) ==
  IF n > Len(src_entities[j]) THEN <<>>
  ELSE (IF src_entities[j][n].copy_ok
          THEN <<[kind |-> src_entities[j][n].kind, geom |-> src_entities[j][n].geom,
                  src |-> j, idx |-> n]>>
          ELSE <<>>)
       \o CopiesFrom(j, n + 1)

RECURSIVE CopiesOfDone(_)
CopiesOfDone(n) ==
  IF n = 0 THEN <<>>
  ELSE CopiesOfDone(n - 1) \o (IF status[n] = "Done" THEN CopiesFrom(n, 1) ELSE <<>>)

Provenance(es) ==
  [p \in 1..Len(es) |->
     [kind |-> es[p].kind, geom |-> es[p].geom, src |-> es[p].src, idx |-> es[p].idx]]

\* C4: in every state, an entity that stands before another in the target
\* comes from an earlier file, or from the same file and an earlier place in
\* it (so no entity stands twice; the order is transitive, so it is stated
\* of neighbours); and once the loop has run to its end the
\* target is the copyable entities of the files that are Done, file by file,
\* each in the order of its file.
C4_SourceOrderKept ==
  /\ \A p \in 1..(Len(Target) - 1) : Before(Target[p], Target[p + 1])
  /\ Completed => Provenance(Target) = CopiesOfDone(nfiles)

C4_Witness ==
  /\ Completed
  /\ nfiles = 2
  /\ Len(Target) = 3
  /\ Target[1].src = 1
  /\ Target[2].src = 2
  /\ Target[3].idx = 2
  /\ Len(src_entities[1]) = 2

\* readfile raised on file j.
ReadFailed(j) == status[j] = "Failed" /\ ~was_read[j]

\* C5: a file that cannot be read is marked Failed with a line in the log,
\* the loop is at its next file (or past its last) right after, no entity of
\* the target comes from it, and once the loop has run to its end every file
\* is Done or Failed and the target holds, of every file, its copyable
\* entities if it was read and is Done and nothing otherwise.
C5_UnreadableFileSkipped ==
  /\ \A j \in Files :
       ReadFailed(j) =>
         /\ LogCount("read_error", j) + LogCount("file_error", j) = 1
         /\ PlacesOf(j) = {}
         /\ j = i => pc \in {"loop", "save", "done", "aborted"}
         /\ (j = i /\ pc = "aborted") => saves > 0
  /\ Completed =>
       \A j \in Files :
         /\ status[j] \in {"Done", "Failed"}
         /\ {Target[p].idx : p \in PlacesOf(j)} =
              (IF was_read[j] /\ status[j] = "Done" THEN Copyable(j) ELSE {})

C5_Witness ==
  /\ Completed
  /\ nfiles = 2
  /\ ReadFailed(1)
  /\ status[2] = "Done"
  /\ Len(Target) = 2
  /\ PlacesOf(2) = {1, 2}

\* What a run says when it failed.
FailureMessages == {"no_files", "no_merged", "save_error", "exception"}

\* C6 as stated: a run in which no file is Done leaves no output file and
\* ends with a message of failure.
C6_NothingSavedWithoutSuccess ==
  (Ended /\ \A j \in Files : status[j] # "Done") =>
    /\ output_file = "absent"
    /\ saves = 0
    /\ outcome.msg \in FailureMessages

\* The run decided whether to save.
Decided == saves > 0 \/ outcome.msg \in {"no_files", "no_merged"}

\* C7 as stated: when a run has ended, every file was attempted and the run
\* came to its decision on saving.
C7_EveryFileAttempted ==
  Ended => (Decided /\ \A j \in Files : status[j] # "Pending")

\* C8: in every state of a run of merge_dxf_files (either version), every
\* block of the target that the run created has a name that does not start
\* with '*', and the two blocks the new target came with are as they were.
C8_NoAnonymousBlockCopied ==
  CopiesResources(variant) =>
    /\ \A p \in 1..Len(merged_doc.blocks) :
         merged_doc.blocks[p].src # 0 => ~StartsWith(merged_doc.blocks[p].name, "*")
    /\ \A p \in 1..Len(NewDoc.blocks) : merged_doc.blocks[p] = NewDoc.blocks[p]

C8_Witness ==
  /\ CopiesResources(variant)
  /\ pc = "layers"
  /\ HasEntry(source_doc.blocks, AnonBlock)
  /\ HasEntry(source_doc.blocks, UserBlock)
  /\ HasEntry(merged_doc.blocks, UserBlock)

\* C9 as stated: saveas is called at most once, only when every file is Done
\* or Failed, and once when the run has ended with a file Done.
C9_SavedOnceAfterAll ==
  /\ saves <= 1
  /\ saves > 0 => \A j \in Files : status[j] \in {"Done", "Failed"}
  /\ (Ended /\ \E j \in Files : status[j] = "Done") => saves = 1

PersistFailed == saves > 0 /\ outcome.msg \in {"save_error", "exception"}

\* C11 as stated: when saveas has raised, the run has ended with a message
\* of failure and no output file exists, not even a partial one.
C11_NoFileAfterPersistError ==
  PersistFailed =>
    /\ Ended
    /\ outcome.msg \in FailureMessages
    /\ output_file = "absent"

\* The number of files that are Done.
DoneCount == Cardinality({j \in Files : status[j] = "Done"})

\* The copies of file j that raised when the file was imported.
RaisedIn(j) ==
  Cardinality(Uncopyable(j))
  + Cardinality({kind \in Kinds : \E p \in 1..Len(first[kind]) :
                   /\ first[kind][p].src = j
                   /\ first[kind][p].fault # "none"
                   /\ Contested(kind, first[kind][p])})

LinesOf(j) == Cardinality({p \in 1..Len(log) : log[p].src = j})

\* C12 as stated: when a run has ended, every copy that raised in a file
\* that was imported to its end left a line in the log, every file that
\* could not be read left one, and the number of files the last message
\* gives is the number of files that are Done.
C12_ErrorsLoggedFilesCounted ==
  Ended =>
    /\ \A j \in Files :
         /\ (status[j] = "Done" /\ CopiesResources(variant)) => LinesOf(j) >= RaisedIn(j)
         /\ ReadFailed(j) => LinesOf(j) = 1
    /\ (outcome.msg = "merged" /\ outcome.files >= 0) => outcome.files = DoneCount

\* C13 as stated: once saveas has been called, the layer of every entity of
\* the target's modelspace is a name of the target's layer table.
C13_LayersResolveAtPersist ==
  saves > 0 => \A p \in 1..Len(Target) : HasEntry(merged_doc.layers, Target[p].layer)

ReservedNames ==
  [blocks |-> {}, layers |-> {},
   linetypes |-> {"ByLayer", "ByBlock", "Continuous"}, styles |-> {"Standard"}]

\* The entries of the table of kind that bear a reserved name.
ReservedEntries(doc, kind) ==
  {doc[kind][p] : p \in {q \in 1..Len(doc[kind]) : doc[kind][q].name \in ReservedNames[kind]}}

\* C14: in every state of a run, the target holds the linetypes ByLayer,
\* ByBlock and Continuous and the text style Standard, and every entry under
\* one of these names is the entry the new target came with.
C14_ReservedNamesKept ==
  \A kind \in {"linetypes", "styles"} :
    /\ \A name \in ReservedNames[kind] : HasEntry(merged_doc[kind], name)
    /\ ReservedEntries(merged_doc, kind) = ReservedEntries(NewDoc, kind)

\* The file that was imported gives Continuous another definition.
C14_Witness ==
  /\ CopiesResources(variant)
  /\ pc = "styles"
  /\ HasEntry(source_doc.linetypes, "Continuous")
  /\ GetEntry(source_doc.linetypes, "Continuous").def.description = "Redefined"
  /\ GetEntry(merged_doc.linetypes, "Continuous").def.description = "Solid line"

\* The steps of the state of one file.
Allowed ==
  {<<"Pending", "Reading">>, <<"Reading", "Importing">>, <<"Importing", "Done">>,
   <<"Reading", "Failed">>, <<"Importing", "Failed">>}

StatusSteps ==
  \A j \in Files : status'[j] = status[j] \/ <<status[j], status'[j]>> \in Allowed

\* The files before the one the loop is at are Done or Failed, the files
\* after it are Pending, and readfile is called on a file that is Reading.
OneFileAtATime ==
  /\ \A j \in Files :
       /\ j < i => status[j] \in {"Done", "Failed"}
       /\ j > i => status[j] = "Pending"
  /\ pc = "read" => (i \in Files /\ status[i] = "Reading")
  /\ pc = "loop" => (i \in Files => status[i] \in {"Done", "Failed"})

\* C15: the state of every file moves only along Pending, Reading,
\* Importing, Done, or from Reading or Importing to Failed; Done and Failed
\* are never left, so no file is read twice; and the loop is at a later file
\* only when every earlier file is Done or Failed.
C15_SourceStateMachine == [][StatusSteps]_vars /\ []OneFileAtATime

C15_Witness ==
  /\ nfiles = 2
  /\ status[1] = "Failed"
  /\ was_read[1]
  /\ status[2] = "Importing"
  /\ pc = "entities"

\* source_doc is the document read from the file the loop is at.
Current == i \in Files /\ was_read[i] /\ source_doc.readable

\* C16 as stated: whenever the target holds an entity of the file the loop
\* is at, the insertion base of that file's document is the origin (it was
\* reset before the first of its entities was placed).
C16_OriginResetBeforeImport ==
  (Current /\ PlacesOf(i) # {}) => source_doc.insbase = Origin

\* The places in its file of the entities of file j that the target holds.
PlacedFrom(j) == {Target[p].idx : p \in PlacesOf(j)}

\* C17: in the entry points that copy the modelspace themselves, while the
\* modelspace loop runs the target holds every copyable entity of the file
\* that the loop has passed, whatever failed before it; a file that is Done
\* has all its copyable entities in the target; and no file is Failed once
\* one of its entities is in the target, so a copy that raises fails the
\* entity and not the file.
C17_OnlyFailedEntitySkipped ==
  ~UsesImporter(variant) =>
    /\ (pc = "entities" /\ Current) =>
         /\ status[i] = "Importing"
         /\ PlacedFrom(i) = {n \in Copyable(i) : n < k}
    /\ \A j \in Files :
         /\ status[j] = "Done" => PlacedFrom(j) = Copyable(j)
         /\ status[j] = "Failed" => PlacesOf(j) = {}

\* The first entity of the file could not be copied, the second is in the
\* target, and the file is Done.
C17_Witness ==
  /\ variant \in {"fixed", "files"}
  /\ nfiles >= 1
  /\ status[1] = "Done"
  /\ Len(src_entities[1]) = 2
  /\ ~src_entities[1][1].copy_ok
  /\ PlacedFrom(1) = {2}
  /\ LogCount("entity_warning", 1) = 1

\* The entity of the file the loop is at that stands at place p of the
\* target, as the file holds it.
AsRead(p) == src_entities[i][Target[p].idx]

\* The layer of e is not in the layer table of its own document.
Dangling(e) == ~HasEntry(source_doc.layers, e.layer)

\* C18 as stated: an entity of the file the loop is at whose layer is not a
\* layer of its own document is in the target on the default layer "0", and
\* a warning about it is in the log.
C18_DanglingLayerReplaced ==
  Current =>
    /\ \A n \in Copyable(i) :
         (Dangling(src_entities[i][n]) /\ status[i] = "Done") => n \in PlacedFrom(i)
    /\ \A p \in PlacesOf(i) :
         Dangling(AsRead(p)) =>
           /\ Target[p].layer = "0"
           /\ LogCount("layer_reference_warning", i) >= 1

\* The first definition f of a name of the table of kind came from a file
\* that is Done, and the name is neither reserved nor one the new target
\* holds: the name was absent from the target when the file was imported.
OwedInFull(kind, f) ==
  /\ status[f.src] = "Done"
  /\ Contested(kind, f)
  /\ f.name \notin ReservedNames[kind]

\* C19 as stated: the target holds, under the name of every such layer,
\* linetype and text style, a definition equal to the source's in every
\* field (for a linetype: description and pattern).
C19_DefinitionsCopiedInFull ==
  CopiesResources(variant) =>
    \A kind \in {"layers", "linetypes", "styles"} : \A p \in 1..Len(first[kind]) :
      OwedInFull(kind, first[kind][p]) =>
        /\ HasEntry(merged_doc[kind], first[kind][p].name)
        /\ GetEntry(merged_doc[kind], first[kind][p].name).def = first[kind][p].def

\* Copies of all the entities of body, in the order of body.
AllCopies(body) == [p \in 1..Len(body) |-> EntityCopy(body[p])]

\* C20 as stated: when the file the loop is at is Done, every block of it
\* whose name does not start with '*' is a name of the target's blocks, and
\* a block the import of this file created holds copies of all the
\* entities of the source block, in their order.
C20_BlocksCopiedWhole ==
  (CopiesResources(variant) /\ Current /\ status[i] = "Done") =>
    \A p \in 1..Len(source_doc.blocks) :
      LET b == source_doc.blocks[p]
      IN ~StartsWith(b.name, "*") =>
           /\ HasEntry(merged_doc.blocks, b.name)
           /\ GetEntry(merged_doc.blocks, b.name).src = i =>
                GetEntry(merged_doc.blocks, b.name).def = AllCopies(b.def)

-----------------------------------------------------------------------------
(* Fidelity of the copies in the target's modelspace.                      *)

\* The entity of its file that the p-th entity of the target was copied
\* from, with the fields it had when the file was read.
Original(p) == src_entities[Target[p].src][Target[p].idx]

\* The layer merge_dxf_with_layers gives every copy of file j when it is
\* asked to use the file name as the layer; elsewhere the copy keeps the
\* layer of its original.
LayerOfCopy(p) ==
  IF variant = "with_layers" /\ use_filename_as_layer
    THEN FileStem(Target[p].src)
    ELSE Original(p).layer

\* While a file is being imported, no step changes its modelspace or one
\* of its four tables.
SourceKept ==
  (Current /\ i' = i /\ pc' # "read") =>
    /\ source_doc'.entities = source_doc.entities
    /\ source_doc'.blocks = source_doc.blocks
    /\ source_doc'.layers = source_doc.layers
    /\ source_doc'.linetypes = source_doc.linetypes
    /\ source_doc'.styles = source_doc.styles

\* An entity the target's modelspace holds stays as it is and where it is,
\* whatever becomes of source_doc afterwards.
TargetKept ==
  \A p \in 1..Len(Target) : p <= Len(Target') /\ Target'[p] = Target[p]

\* C21 as stated: every entity of the target's modelspace has the kind, the
\* layer and the geometry (with it the name an INSERT refers to) of the
\* source entity it was copied from.
C21_CopyHasFieldsOfSource ==
  \A p \in 1..Len(Target) :
    /\ Target[p].kind = Original(p).kind
    /\ Target[p].layer = Original(p).layer
    /\ Target[p].geom = Original(p).geom

\* C21, amended: every entity of the target's modelspace has the kind and
\* the geometry of the source entity it was copied from, and its layer too
\* unless merge_dxf_with_layers runs with use_filename_as_layer, where its
\* layer is the one named after its file; the import of a file changes
\* neither the modelspace nor the tables of that file; and an entity the
\* target holds is not changed by anything that happens later.
C21_CopyFaithfulButForFileLayer ==
  /\ [](\A p \in 1..Len(Target) :
          /\ Target[p].kind = Original(p).kind
          /\ Target[p].geom = Original(p).geom
          /\ Target[p].layer = LayerOfCopy(p))
  /\ [][SourceKept /\ TargetKept]_vars

\* A copy of file 1 sits on the layer named after the file, not on the
\* layer of its original, and the loop has since read another file.
C21_Witness ==
  /\ variant = "with_layers" /\ use_filename_as_layer
  /\ i = 2 /\ Current
  /\ \E p \in 1..Len(Target) :
       /\ Target[p].src = 1
       /\ Original(p).layer = "L1"
       /\ Target[p].layer = FileStem(1)
       /\ Target[p].geom = Original(p).geom

-----------------------------------------------------------------------------
(* What a file that ends Failed leaves in the target.                      *)

\* The entries of the target's table kind that the import of file j made.
EntriesOf(kind, j) ==
  {p \in 1..Len(merged_doc[kind]) : merged_doc[kind][p].src = j}

\* C23 as stated: of a file that ended Failed the target holds no block,
\* no layer, no linetype, no text style and no modelspace entity; with it,
\* no block that file began stands in the way of a later file's block of
\* the same name.
C23_FailedSourceLeavesNothing ==
  \A j \in Files :
    status[j] = "Failed" =>
      /\ \A kind \in Kinds : EntriesOf(kind, j) = {}
      /\ PlacesOf(j) = {}

-----------------------------------------------------------------------------
(* batch_block_by_filename.py: process_directory and all_entities_to_block. *)
(* A behaviour of SpecBlock is a directory and the runs of                  *)
(* process_directory over it, each run reading the files the run before     *)
(* it has overwritten.                                                      *)

\* The runs of process_directory in one behaviour.
MaxRuns == 2

\* str.lower() on the extension of a file name.
Lower(ext) == CASE ext = ".DXF" -> ".dxf" [] ext = ".TXT" -> ".txt" [] OTHER -> ext

\* filename.lower().endswith('.dxf'); a file name is <<stem, extension>>.
IsDxf(filename) == Lower(filename[2]) = ".dxf"

\* os.path.splitext(filename)[0], the name of the block.
BlockName(filename) == <<filename[1]>>

\* The INSERT that msp.add_blockref(name, at) creates, on layer "0".
BlockRef(name, at) == Entity("INSERT", "0", <<name, at>>, TRUE)

\* What the file of the given stem may hold: a modelspace of up to MaxEnts
\* entities, a modelspace with a block that already has the name of the
\* file, or nothing ezdxf can read.
WrapDocs(stem) ==
  {[BaseDoc EXCEPT !.entities = es] : es \in SeqsUpTo(EntityPool, MaxEnts)}
  \cup {[BaseDoc EXCEPT !.entities = <<E_line, E_arc>>,
                        !.blocks = StdBlocks \o <<Block(<<stem>>, <<E_arc>>)>>]}
  \cup {CorruptDoc}

\* The j-th file of the directory: its name and what it holds.
DirFiles(j) ==
  {[name |-> <<FileStem(j), ".dxf">>, content |-> d] : d \in WrapDocs(FileStem(j))}
  \cup {[name |-> <<FileStem(j), ".DXF">>, content |-> BaseDoc],
        [name |-> <<FileStem(j), ".txt">>, content |-> BaseDoc]}

\* os.listdir(directory) for a directory of n files.
RECURSIVE Listings(_)
Listings(n) ==
  IF n = 0 THEN {<<>>}
  ELSE {Append(d, f) : d \in Listings(n - 1), f \in DirFiles(n)}

\* What the runs of process_directory leave alone.
merging ==
  <<variant, use_filename_as_layer, k, status, source_doc, merged_doc,
    processed_blocks, entity_count, merged_count, total_entities, output_file,
    saves, outcome, log, inputs, entity_counts, harness>>

InitBlock ==
  /\ variant = "process_directory"
  /\ use_filename_as_layer = TRUE
  /\ nfiles \in 0..MaxSources
  /\ directory \in Listings(nfiles)
  /\ originals = [j \in 1..nfiles |-> directory[j].content.entities]
  /\ applied = [j \in 1..nfiles |-> 0]
  /\ runs = 0
  /\ the_doc = NoDoc
  /\ the_entities = <<>>
  /\ pc = "wrap_start"
  /\ i = 0
  /\ k = 0
  /\ status = <<>>
  /\ source_doc = NoDoc
  /\ merged_doc = NewDoc
  /\ processed_blocks = {}
  /\ entity_count = 0
  /\ merged_count = 0
  /\ total_entities = 0
  /\ output_file = "absent"
  /\ saves = 0
  /\ outcome = Running
  /\ log = <<>>
  /\ first = NoFirst
  /\ was_read = <<>>
  /\ src_entities = <<>>
  /\ entity_counts = <<>>
  /\ resets = 0
  /\ once = NoDoc

\* process_directory(directory) is called: the first time, or again after
\* a run that ended or was left by an exception.
ProcessDirectory ==
  /\ pc \in {"wrap_start", "wrap_done", "wrap_aborted"}
  /\ runs < MaxRuns
  /\ runs' = runs + 1
  /\ i' = 0
  /\ the_doc' = NoDoc
  /\ the_entities' = <<>>
  /\ pc' = "wrap_loop"
  /\ UNCHANGED <<merging, nfiles, directory, originals, applied>>

\* for filename in os.listdir(directory): if filename.lower().endswith('.dxf')
NextFilename ==
  /\ pc = "wrap_loop"
  /\ IF i < nfiles
       THEN /\ i' = i + 1
            /\ pc' = IF IsDxf(directory[i + 1].name) THEN "wrap_read" ELSE "wrap_loop"
       ELSE /\ pc' = "wrap_done"
            /\ UNCHANGED i
  /\ UNCHANGED <<merging, nfiles, directory, the_doc, the_entities, runs,
                 originals, applied>>

\* doc = ezdxf.readfile(file_path); no handler: a file that cannot be read
\* ends the run.
WrapRead ==
  /\ pc = "wrap_read"
  /\ IF directory[i].content.readable
       THEN /\ the_doc' = directory[i].content
            /\ pc' = "wrap_call"
       ELSE /\ pc' = "wrap_aborted"
            /\ UNCHANGED the_doc
  /\ UNCHANGED <<merging, nfiles, i, directory, the_entities, runs, originals,
                 applied>>

\* A removal that leaves the table as it is.
RemoveNothing(d, name) == d

\* doc.blocks.remove(block_name): the entry of that name leaves the table.
RemoveBlock(d, name) ==
  [d EXCEPT !.blocks = SelectSeq(@, LAMBDA b : b.name # name)]

\* Whether doc.blocks.remove(block_name) returns.  ezdxf's block section
\* deletes with delete_block, which refuses a block that an INSERT still
\* refers to; whether the installed version answers remove at all, and
\* whether it refuses, is the library's: both outcomes are taken.
RemoveReturns(d, name) == IF HasEntry(d.blocks, name) THEN BOOLEAN ELSE {TRUE}

\* block = doc.blocks.new(name); for e in entities: block.add_entity(e.copy())
\* The copies are added until one raises.
NewBlock(d, name, es) ==
  [d EXCEPT !.blocks = Append(@, Block(name, CopyUntilRaise(es)))]

\* msp.delete_all_entities()
DeleteAllEntities(d) == [d EXCEPT !.entities = <<>>]

\* msp.add_blockref(block_name, (0, 0))
AddBlockref(d, name) ==
  [d EXCEPT !.entities = Append(@, BlockRef(name, <<0, 0>>))]

\* all_entities_to_block(doc, block_name).  No step of it stands in a try:
\* when remove or a copy raises, the exception leaves process_directory with
\* the document as far as it got and the file as it was.
AllEntitiesToBlock ==
  /\ pc = "wrap_call"
  /\ the_entities' = the_doc.entities
  /\ LET name == BlockName(directory[i].name) IN
       \E returns \in RemoveReturns(the_doc, name) :
         IF ~returns
           THEN /\ pc' = "wrap_aborted"
                /\ UNCHANGED the_doc
           ELSE LET removed == IF HasEntry(the_doc.blocks, name)
                                 THEN RemoveBlock(the_doc, name) ELSE the_doc
                    filled == NewBlock(removed, name, the_doc.entities)
                IN IF AllCopyOk(the_doc.entities)
                     THEN /\ the_doc' = AddBlockref(DeleteAllEntities(filled), name)
                          /\ pc' = "wrap_save"
                     ELSE /\ the_doc' = filled
                          /\ pc' = "wrap_aborted"
  /\ UNCHANGED <<merging, nfiles, i, directory, runs, originals, applied>>

\* doc.saveas(file_path): the file is overwritten.
WrapSave ==
  /\ pc = "wrap_save"
  /\ directory' = [directory EXCEPT ![i].content = the_doc]
  /\ applied' = [applied EXCEPT ![i] = @ + 1]
  /\ pc' = "wrap_loop"
  /\ UNCHANGED <<merging, nfiles, i, the_doc, the_entities, runs, originals>>

\* doc.saveas(file_path) raises while writing: the file is cut short and
\* the exception leaves process_directory.
WrapSaveFails ==
  /\ pc = "wrap_save"
  /\ directory' = [directory EXCEPT ![i].content = CorruptDoc]
  /\ pc' = "wrap_aborted"
  /\ UNCHANGED <<merging, nfiles, i, the_doc, the_entities, runs, originals,
                 applied>>

NextBlock ==
  \/ ProcessDirectory
  \/ NextFilename
  \/ WrapRead
  \/ AllEntitiesToBlock
  \/ WrapSave
  \/ WrapSaveFails

SpecBlock == InitBlock /\ [][NextBlock]_vars

-----------------------------------------------------------------------------
(* What all_entities_to_block leaves.                                      *)

\* The entries of the block table of d under name.
Named(d, name) == {p \in 1..Len(d.blocks) : d.blocks[p].name = name}

\* C22: when all_entities_to_block(doc, name) has returned, the modelspace
\* of doc is one entity, the INSERT of name at (0, 0), and doc has one
\* block of that name, which holds copies of all the entities the
\* modelspace held before the call, in their order, and nothing else.
C22_WrappedIntoOneBlock ==
  pc = "wrap_save" =>
    LET name == BlockName(directory[i].name)
        before == directory[i].content.entities
    IN /\ the_doc.entities = <<BlockRef(name, <<0, 0>>)>>
       /\ Cardinality(Named(the_doc, name)) = 1
       /\ GetEntry(the_doc.blocks, name).def = AllCopies(before)

\* The call has returned for a file of two entities that had a block of
\* the file's name with another body.
C22_Witness ==
  /\ pc = "wrap_save"
  /\ Len(directory[i].content.entities) = 2
  /\ HasEntry(directory[i].content.blocks, BlockName(directory[i].name))
  /\ GetEntry(directory[i].content.blocks, BlockName(directory[i].name)).def
       # GetEntry(the_doc.blocks, BlockName(directory[i].name)).def

-----------------------------------------------------------------------------
(* Repeated wrapping of the same file.                                     *)

\* Whether the entity e is an INSERT of the block name.
RefersTo(e, name) == e.kind = "INSERT" /\ e.geom[1] = name

\* The entities found by opening the block name of d and, up to depth
\* levels down, the blocks its INSERTs refer to.
RECURSIVE Reachable(_, _, _)
Reachable(d, name, depth) ==
  IF depth = 0 \/ ~HasEntry(d.blocks, name) THEN {}
  ELSE LET body == GetEntry(d.blocks, name).def
       IN {body[p] : p \in 1..Len(body)}
          \cup UNION {Reachable(d, body[p].geom[1], depth - 1) :
                        p \in {q \in 1..Len(body) : body[q].kind = "INSERT"}}

\* C24 as stated: whatever the number of calls of all_entities_to_block
\* that were saved to a file, the block named after the file holds no INSERT
\* of itself, the modelspace is the one INSERT of that block, and a copy of
\* every entity the modelspace held before the first call is found by
\* following the INSERT.
C24_RewrapKeepsOriginals ==
  \A j \in 1..nfiles :
    (applied[j] >= 1 /\ directory[j].content.readable) =>
      LET d == directory[j].content
          name == BlockName(directory[j].name)
      IN /\ HasEntry(d.blocks, name)
         /\ \A p \in 1..Len(GetEntry(d.blocks, name).def) :
              ~RefersTo(GetEntry(d.blocks, name).def[p], name)
         /\ d.entities = <<BlockRef(name, <<0, 0>>)>>
         /\ \A p \in 1..Len(originals[j]) :
              EntityCopy(originals[j][p]) \in Reachable(d, name, MaxRuns + 1)

=============================================================================
